---- MODULE Spec2Model ----
(***************************************************************************)
(* Material render-state model of src/src/scene/materials/material.js:     *)
(* the Material class (render-state fields, the blendType preset codec,    *)
(* the parameter table, the mesh-instance linkage, clone and destroy).     *)
(*                                                                         *)
(* JavaScript objects are heap cells: a material is an index into the      *)
(* sequence mat, a stencil block an index into stencils; Null (0) is the   *)
(* JavaScript null reference.  Object-valued maps (parameters, variants)   *)
(* are functions whose DOMAIN is the set of own keys.                      *)
(***************************************************************************)
EXTENDS Integers, Sequences, FiniteSets, TLC

VARIABLES
    mat,              \* heap of Material objects, in construction order
    nextId,           \* the module-level id counter
    defaultMaterial,  \* the static Material.defaultMaterial
    mesh,             \* the mesh instances (consumers): material reference, shader slots
    sceneDirtyBlend,  \* scene.layers._dirtyBlend of the one scene object
    stencils,         \* heap of StencilParameters objects
    shaderFailed,     \* the failed flag of each shader object
    calls,            \* calls made on collaborators by the last operation, in order
    lastOp,           \* history: the last operation of Material and its arguments
    destroyed,        \* history: materials on which destroy() has been called
    lastSet,          \* history: per material, the last value set for each parameter name
    binding,          \* history: per material and parameter entry, the resolver calls
                      \* made for it and whether it was ever submitted
    objectProto       \* Object.prototype: what has been written onto the properties
                      \* every parameter table inherits

vars == <<mat, nextId, defaultMaterial, mesh, sceneDirtyBlend, stencils,
          shaderFailed, calls, lastOp, destroyed, lastSet, binding,
          objectProto>>

----------------------------------------------------------------------------
(* Bounds of the model *)

MaxBlendMode == 10        \* blend factors assigned directly range over 0..MaxBlendMode
MaxBlendEquation == 4     \* blend equations assigned directly range over 0..MaxBlendEquation
MaxBlendType == 11        \* blendType is set to values 0..MaxBlendType
NumMeshInstances == 2     \* mesh instances (consumers) in the scene
MaxMaterials == 2         \* materials ever constructed
MaxUserStencils == 2      \* StencilParameters objects the application allocates
MaxList == 2              \* longest consumer list explored
MaxBatch == 2             \* longest array handed to setParameter
MaxSetup == 2             \* things the application sets up on its materials before cloning

----------------------------------------------------------------------------
(* Program constants *)

Null == 0

BLENDMODE_ZERO == 0
BLENDMODE_ONE == 1
BLENDMODE_SRC_COLOR == 2
BLENDMODE_DST_COLOR == 4
BLENDMODE_ONE_MINUS_DST_COLOR == 5
BLENDMODE_SRC_ALPHA == 6
BLENDMODE_ONE_MINUS_SRC_ALPHA == 8

BLENDEQUATION_ADD == 0
BLENDEQUATION_MIN == 3
BLENDEQUATION_MAX == 4

CULLFACE_BACK == 1

BLEND_ADDITIVE == 1
BLEND_NORMAL == 2
BLEND_NONE == 3
BLEND_PREMULTIPLIED == 4
BLEND_MULTIPLICATIVE == 5
BLEND_ADDITIVEALPHA == 6
BLEND_MULTIPLICATIVE2X == 7
BLEND_SCREEN == 8
BLEND_MIN == 9
BLEND_MAX == 10

BlendModes == 0..MaxBlendMode
BlendEquations == 0..MaxBlendEquation
BlendTypes == 0..MaxBlendType

\* The ten presets the setter has a case for.
Presets ==
    {BLEND_NONE, BLEND_NORMAL, BLEND_PREMULTIPLIED, BLEND_ADDITIVE,
     BLEND_ADDITIVEALPHA, BLEND_MULTIPLICATIVE2X, BLEND_SCREEN,
     BLEND_MULTIPLICATIVE, BLEND_MIN, BLEND_MAX}

MeshIds == 1..NumMeshInstances
Scene == 1           \* the one scene object a material's _scene may refer to
Shaders == {1}       \* shader objects
NumSlots == 1        \* length of a mesh instance's _shader array
MatIds == 1..Len(mat)

EmptyObj == << >>    \* the object literal {}
Undefined == "<undefined>"     \* the JavaScript value undefined

Absent == "<absent>"           \* no own property of that name

\* The functions a plain object inherits from Object.prototype: a lookup of one
\* of these names in an empty table finds a function object, which is truthy.
FunctionNames ==
    {"constructor", "hasOwnProperty", "isPrototypeOf", "propertyIsEnumerable",
     "toLocaleString", "toString", "valueOf", "__defineGetter__",
     "__defineSetter__", "__lookupGetter__", "__lookupSetter__"}

\* The accessor every plain object inherits: table["__proto__"] is
\* Object.prototype itself.
ProtoKey == "__proto__"

InheritedNames == FunctionNames \cup {ProtoKey}

\* Object.prototype before anything is written onto it:
\*   objects[n]  the own scopeId and data properties of the object a lookup of
\*               n finds (a function, or Object.prototype itself for
\*               "__proto__"); none has either at first;
\*   enumerable  the enumerable names added to Object.prototype itself, in the
\*               order they were added: for...in over any object visits them;
\*   handleData  the own data property of the handle object that sits at
\*               Object.prototype.scopeId.
ObjectPrototype ==
    [objects |-> [n \in InheritedNames |-> [scopeId |-> Null, data |-> Absent]],
     enumerable |-> << >>,
     handleData |-> Absent]

\* lastOp after an operation the history keeps no detail of.
Other == [op |-> "other"]

----------------------------------------------------------------------------
(* The constructor *)

Material(idv) ==
    [ name |-> "Untitled", id |-> idv,
      shader |-> Null, variants |-> EmptyObj, parameters |-> EmptyObj,
      alphaTest |-> 0, alphaToCoverage |-> FALSE,
      blend |-> FALSE, blendSrc |-> BLENDMODE_ONE, blendDst |-> BLENDMODE_ZERO,
      blendEquation |-> BLENDEQUATION_ADD,
      separateAlphaBlend |-> FALSE, blendSrcAlpha |-> BLENDMODE_ONE,
      blendDstAlpha |-> BLENDMODE_ZERO, blendAlphaEquation |-> BLENDEQUATION_ADD,
      cull |-> CULLFACE_BACK,
      depthTest |-> TRUE, depthWrite |-> TRUE,
      stencilFront |-> Null, stencilBack |-> Null,
      depthBias |-> 0, slopeDepthBias |-> 0,
      redWrite |-> TRUE, greenWrite |-> TRUE, blueWrite |-> TRUE, alphaWrite |-> TRUE,
      meshInstances |-> << >>,
      shaderVersion |-> 0, scene |-> Null, dirtyBlend |-> FALSE,
      dirty |-> TRUE ]

----------------------------------------------------------------------------
(* The blend preset codec *)

\* A plausible slip in the getter: blend off reads as "none" without looking at
\* the factors and the equation; the rest of the cascade is the getter's.
GetBlendTypeBlendOffIsNone(m) ==
    IF ~m.blend THEN BLEND_NONE
    ELSE IF m.blendSrc = BLENDMODE_SRC_ALPHA /\ m.blendDst = BLENDMODE_ONE
          /\ m.blendEquation = BLENDEQUATION_ADD
    THEN BLEND_ADDITIVEALPHA
    ELSE IF m.blendSrc = BLENDMODE_ONE /\ m.blendDst = BLENDMODE_ONE
          /\ m.blendEquation = BLENDEQUATION_ADD
    THEN BLEND_ADDITIVE
    ELSE IF m.blendSrc = BLENDMODE_DST_COLOR /\ m.blendDst = BLENDMODE_SRC_COLOR
          /\ m.blendEquation = BLENDEQUATION_ADD
    THEN BLEND_MULTIPLICATIVE2X
    ELSE IF m.blendSrc = BLENDMODE_ONE_MINUS_DST_COLOR /\ m.blendDst = BLENDMODE_ONE
          /\ m.blendEquation = BLENDEQUATION_ADD
    THEN BLEND_SCREEN
    ELSE IF m.blendSrc = BLENDMODE_ONE /\ m.blendDst = BLENDMODE_ONE
          /\ m.blendEquation = BLENDEQUATION_MIN
    THEN BLEND_MIN
    ELSE IF m.blendSrc = BLENDMODE_ONE /\ m.blendDst = BLENDMODE_ONE
          /\ m.blendEquation = BLENDEQUATION_MAX
    THEN BLEND_MAX
    ELSE IF m.blendSrc = BLENDMODE_DST_COLOR /\ m.blendDst = BLENDMODE_ZERO
          /\ m.blendEquation = BLENDEQUATION_ADD
    THEN BLEND_MULTIPLICATIVE
    ELSE IF m.blendSrc = BLENDMODE_ONE /\ m.blendDst = BLENDMODE_ONE_MINUS_SRC_ALPHA
          /\ m.blendEquation = BLENDEQUATION_ADD
    THEN BLEND_PREMULTIPLIED
    ELSE BLEND_NORMAL

\* get blendType: the cascade of exact comparisons, first match wins.
GetBlendType(m) ==
    IF (~m.blend) /\ m.blendSrc = BLENDMODE_ONE /\ m.blendDst = BLENDMODE_ZERO
          /\ m.blendEquation = BLENDEQUATION_ADD
    THEN BLEND_NONE
    ELSE IF m.blend /\ m.blendSrc = BLENDMODE_SRC_ALPHA
          /\ m.blendDst = BLENDMODE_ONE_MINUS_SRC_ALPHA
          /\ m.blendEquation = BLENDEQUATION_ADD
    THEN BLEND_NORMAL
    ELSE IF m.blend /\ m.blendSrc = BLENDMODE_ONE /\ m.blendDst = BLENDMODE_ONE
          /\ m.blendEquation = BLENDEQUATION_ADD
    THEN BLEND_ADDITIVE
    ELSE IF m.blend /\ m.blendSrc = BLENDMODE_SRC_ALPHA /\ m.blendDst = BLENDMODE_ONE
          /\ m.blendEquation = BLENDEQUATION_ADD
    THEN BLEND_ADDITIVEALPHA
    ELSE IF m.blend /\ m.blendSrc = BLENDMODE_DST_COLOR
          /\ m.blendDst = BLENDMODE_SRC_COLOR
          /\ m.blendEquation = BLENDEQUATION_ADD
    THEN BLEND_MULTIPLICATIVE2X
    ELSE IF m.blend /\ m.blendSrc = BLENDMODE_ONE_MINUS_DST_COLOR
          /\ m.blendDst = BLENDMODE_ONE
          /\ m.blendEquation = BLENDEQUATION_ADD
    THEN BLEND_SCREEN
    ELSE IF m.blend /\ m.blendSrc = BLENDMODE_ONE /\ m.blendDst = BLENDMODE_ONE
          /\ m.blendEquation = BLENDEQUATION_MIN
    THEN BLEND_MIN
    ELSE IF m.blend /\ m.blendSrc = BLENDMODE_ONE /\ m.blendDst = BLENDMODE_ONE
          /\ m.blendEquation = BLENDEQUATION_MAX
    THEN BLEND_MAX
    ELSE IF m.blend /\ m.blendSrc = BLENDMODE_DST_COLOR /\ m.blendDst = BLENDMODE_ZERO
          /\ m.blendEquation = BLENDEQUATION_ADD
    THEN BLEND_MULTIPLICATIVE
    ELSE IF m.blend /\ m.blendSrc = BLENDMODE_ONE
          /\ m.blendDst = BLENDMODE_ONE_MINUS_SRC_ALPHA
          /\ m.blendEquation = BLENDEQUATION_ADD
    THEN BLEND_PREMULTIPLIED
    ELSE BLEND_NORMAL

\* A plausible slip: a case that writes the alpha channel's factors as well.
BlendCaseWithAlphaFactors(m, b, src, dst, eq) ==
    [m EXCEPT !.blend = b, !.blendSrc = src, !.blendDst = dst, !.blendEquation = eq,
              !.blendSrcAlpha = src, !.blendDstAlpha = dst]

\* The four assignments of one case of the setter's switch.
BlendCase(m, b, src, dst, eq) ==
    [m EXCEPT !.blend = b, !.blendSrc = src, !.blendDst = dst, !.blendEquation = eq]

\* A plausible slip in the switch: the premultiplied case copied from the normal case.
SwitchBlendTypePremulSlip(m, type) ==
    CASE type = BLEND_NONE ->
            BlendCase(m, FALSE, BLENDMODE_ONE, BLENDMODE_ZERO, BLENDEQUATION_ADD)
      [] type \in {BLEND_NORMAL, BLEND_PREMULTIPLIED} ->
            BlendCase(m, TRUE, BLENDMODE_SRC_ALPHA, BLENDMODE_ONE_MINUS_SRC_ALPHA,
                      BLENDEQUATION_ADD)
      [] type = BLEND_ADDITIVE ->
            BlendCase(m, TRUE, BLENDMODE_ONE, BLENDMODE_ONE, BLENDEQUATION_ADD)
      [] type = BLEND_ADDITIVEALPHA ->
            BlendCase(m, TRUE, BLENDMODE_SRC_ALPHA, BLENDMODE_ONE, BLENDEQUATION_ADD)
      [] type = BLEND_MULTIPLICATIVE2X ->
            BlendCase(m, TRUE, BLENDMODE_DST_COLOR, BLENDMODE_SRC_COLOR,
                      BLENDEQUATION_ADD)
      [] type = BLEND_SCREEN ->
            BlendCase(m, TRUE, BLENDMODE_ONE_MINUS_DST_COLOR, BLENDMODE_ONE,
                      BLENDEQUATION_ADD)
      [] type = BLEND_MULTIPLICATIVE ->
            BlendCase(m, TRUE, BLENDMODE_DST_COLOR, BLENDMODE_ZERO, BLENDEQUATION_ADD)
      [] type = BLEND_MIN ->
            BlendCase(m, TRUE, BLENDMODE_ONE, BLENDMODE_ONE, BLENDEQUATION_MIN)
      [] type = BLEND_MAX ->
            BlendCase(m, TRUE, BLENDMODE_ONE, BLENDMODE_ONE, BLENDEQUATION_MAX)
      [] OTHER -> m

\* set blendType, the switch: a type without a case leaves the fields alone.
SwitchBlendType(m, type) ==
    CASE type = BLEND_NONE ->
            BlendCase(m, FALSE, BLENDMODE_ONE, BLENDMODE_ZERO, BLENDEQUATION_ADD)
      [] type = BLEND_NORMAL ->
            BlendCase(m, TRUE, BLENDMODE_SRC_ALPHA, BLENDMODE_ONE_MINUS_SRC_ALPHA,
                      BLENDEQUATION_ADD)
      [] type = BLEND_PREMULTIPLIED ->
            BlendCase(m, TRUE, BLENDMODE_ONE, BLENDMODE_ONE_MINUS_SRC_ALPHA,
                      BLENDEQUATION_ADD)
      [] type = BLEND_ADDITIVE ->
            BlendCase(m, TRUE, BLENDMODE_ONE, BLENDMODE_ONE, BLENDEQUATION_ADD)
      [] type = BLEND_ADDITIVEALPHA ->
            BlendCase(m, TRUE, BLENDMODE_SRC_ALPHA, BLENDMODE_ONE, BLENDEQUATION_ADD)
      [] type = BLEND_MULTIPLICATIVE2X ->
            BlendCase(m, TRUE, BLENDMODE_DST_COLOR, BLENDMODE_SRC_COLOR,
                      BLENDEQUATION_ADD)
      [] type = BLEND_SCREEN ->
            BlendCase(m, TRUE, BLENDMODE_ONE_MINUS_DST_COLOR, BLENDMODE_ONE,
                      BLENDEQUATION_ADD)
      [] type = BLEND_MULTIPLICATIVE ->
            BlendCase(m, TRUE, BLENDMODE_DST_COLOR, BLENDMODE_ZERO, BLENDEQUATION_ADD)
      [] type = BLEND_MIN ->
            BlendCase(m, TRUE, BLENDMODE_ONE, BLENDMODE_ONE, BLENDEQUATION_MIN)
      [] type = BLEND_MAX ->
            BlendCase(m, TRUE, BLENDMODE_ONE, BLENDMODE_ONE, BLENDEQUATION_MAX)
      [] OTHER -> m

----------------------------------------------------------------------------
(* Mesh-instance linkage *)

\* The list as the set of its positions, and a call record.
UpdateKeyCall(mi, m) == [fn |-> "updateKey", mi |-> mi, blendType |-> GetBlendType(m)]

\* A plausible slip: the loop starts at 1 and skips the first consumer.
UpdateMeshInstanceKeysSkipFirst(m) ==
    [k \in 1..(Len(m.meshInstances) - 1) |-> UpdateKeyCall(m.meshInstances[k + 1], m)]

\* _updateMeshInstanceKeys: updateKey() on each consumer, in list order; each call
\* is recorded with the preset the material decodes to at the time of the call.
UpdateMeshInstanceKeys(m) ==
    [k \in 1..Len(m.meshInstances) |-> UpdateKeyCall(m.meshInstances[k], m)]

\* A plausible slip: the local flag is raised whether or not a scene is attached.
RaiseDirtyBlendAlwaysLocal(m, sceneFlag) ==
    [m |-> [m EXCEPT !.dirtyBlend = TRUE],
     sceneFlag |-> IF m.scene # Null THEN TRUE ELSE sceneFlag]

\* The routing of the blend-dirty signal: the scene's flag when a scene is
\* attached, the material's own flag otherwise.
RaiseDirtyBlend(m, sceneFlag) ==
    IF m.scene # Null
    THEN [m |-> m, sceneFlag |-> TRUE]
    ELSE [m |-> [m EXCEPT !.dirtyBlend = TRUE], sceneFlag |-> sceneFlag]

\* A plausible slip: the keys are recomputed only when the enabled flag changed.
BlendTypeSetterKeysOnChange(m, type, sceneFlag) ==
    LET prevBlend == m.blend
        m1 == SwitchBlendType(m, type)
        r == IF prevBlend # m1.blend THEN RaiseDirtyBlend(m1, sceneFlag)
             ELSE [m |-> m1, sceneFlag |-> sceneFlag]
    IN  [m |-> r.m, sceneFlag |-> r.sceneFlag,
         calls |-> IF prevBlend # m1.blend THEN UpdateMeshInstanceKeys(r.m) ELSE << >>]

\* A plausible slip: the dirty signal is raised on every assignment.
BlendTypeSetterAlwaysDirty(m, type, sceneFlag) ==
    LET m1 == SwitchBlendType(m, type)
        r == RaiseDirtyBlend(m1, sceneFlag)
    IN  [m |-> r.m, sceneFlag |-> r.sceneFlag, calls |-> UpdateMeshInstanceKeys(r.m)]

\* set blendType, whole: the switch, the dirty signal when blend changed, then
\* _updateMeshInstanceKeys().
BlendTypeSetter(m, type, sceneFlag) ==
    LET prevBlend == m.blend
        m1 == SwitchBlendType(m, type)
        r == IF prevBlend # m1.blend THEN RaiseDirtyBlend(m1, sceneFlag)
             ELSE [m |-> m1, sceneFlag |-> sceneFlag]
    IN  [m |-> r.m, sceneFlag |-> r.sceneFlag, calls |-> UpdateMeshInstanceKeys(r.m)]

----------------------------------------------------------------------------
(* Initial state: one material constructed, the consumers unattached *)

Init ==
    /\ mat = << Material(0) >>
    /\ nextId = 1
    /\ defaultMaterial = Null
    /\ mesh = [i \in MeshIds |-> [material |-> Null, shader |-> [s \in 1..NumSlots |-> Null]]]
    /\ sceneDirtyBlend = FALSE
    /\ stencils = << >>
    /\ shaderFailed = [s \in Shaders |-> FALSE]
    /\ calls = << >>
    /\ lastOp = [op |-> "construct", m |-> 1]
    /\ destroyed = {}
    /\ lastSet = << EmptyObj >>
    /\ binding = << EmptyObj >>
    /\ objectProto = ObjectPrototype

----------------------------------------------------------------------------
(* Operations on the blend state *)

\* material.blendType = type
SetBlendType(i, type) ==
    LET r == BlendTypeSetter(mat[i], type, sceneDirtyBlend)
    IN  /\ mat' = [mat EXCEPT ![i] = r.m]
        /\ sceneDirtyBlend' = r.sceneFlag
        /\ calls' = r.calls
        /\ lastOp' = [op |-> "setBlendType", m |-> i, type |-> type,
                      prevBlend |-> mat[i].blend]
        /\ UNCHANGED <<objectProto, binding, nextId, defaultMaterial, mesh, stencils, shaderFailed,
                       destroyed, lastSet>>

\* material.blend = b: a plain field write.
AssignBlend(i, b) ==
    /\ mat' = [mat EXCEPT ![i].blend = b]
    /\ calls' = << >>
    /\ lastOp' = [op |-> "assignBlend", m |-> i, value |-> b]
    /\ UNCHANGED <<objectProto, binding, nextId, defaultMaterial, mesh, sceneDirtyBlend, stencils,
                   shaderFailed, destroyed, lastSet>>

\* material.blendSrc = v
AssignBlendSrc(i, v) ==
    /\ mat' = [mat EXCEPT ![i].blendSrc = v]
    /\ calls' = << >>
    /\ lastOp' = [op |-> "assignBlendSrc", m |-> i, value |-> v]
    /\ UNCHANGED <<objectProto, binding, nextId, defaultMaterial, mesh, sceneDirtyBlend, stencils,
                   shaderFailed, destroyed, lastSet>>

\* material.blendDst = v
AssignBlendDst(i, v) ==
    /\ mat' = [mat EXCEPT ![i].blendDst = v]
    /\ calls' = << >>
    /\ lastOp' = [op |-> "assignBlendDst", m |-> i, value |-> v]
    /\ UNCHANGED <<objectProto, binding, nextId, defaultMaterial, mesh, sceneDirtyBlend, stencils,
                   shaderFailed, destroyed, lastSet>>

\* material.blendEquation = v
AssignBlendEquation(i, v) ==
    /\ mat' = [mat EXCEPT ![i].blendEquation = v]
    /\ calls' = << >>
    /\ lastOp' = [op |-> "assignBlendEquation", m |-> i, value |-> v]
    /\ UNCHANGED <<objectProto, binding, nextId, defaultMaterial, mesh, sceneDirtyBlend, stencils,
                   shaderFailed, destroyed, lastSet>>

\* The codec alone: one material, its four blend fields written directly over
\* their whole range, and the preset setter.
NextCodec ==
    \/ \E i \in MatIds, type \in BlendTypes : SetBlendType(i, type)
    \/ \E i \in MatIds, b \in BOOLEAN : AssignBlend(i, b)
    \/ \E i \in MatIds, v \in BlendModes : AssignBlendSrc(i, v)
    \/ \E i \in MatIds, v \in BlendModes : AssignBlendDst(i, v)
    \/ \E i \in MatIds, v \in BlendEquations : AssignBlendEquation(i, v)

SpecCodec == Init /\ [][NextCodec]_vars

----------------------------------------------------------------------------
(* The collaborators of the blend state: scene, renderer, consumers *)

\* The scene side attaches itself to a material, or detaches: material._scene = s.
SetScene(i, s) ==
    /\ mat[i].scene # s
    /\ mat' = [mat EXCEPT ![i].scene = s]
    /\ calls' = << >>
    /\ lastOp' = Other
    /\ UNCHANGED <<objectProto, binding, nextId, defaultMaterial, mesh, sceneDirtyBlend, stencils,
                   shaderFailed, destroyed, lastSet>>

\* The renderer consumes the material's local blend-dirty flag.
ClearDirtyBlend(i) ==
    /\ mat[i].dirtyBlend
    /\ mat' = [mat EXCEPT ![i].dirtyBlend = FALSE]
    /\ calls' = << >>
    /\ lastOp' = Other
    /\ UNCHANGED <<objectProto, binding, nextId, defaultMaterial, mesh, sceneDirtyBlend, stencils,
                   shaderFailed, destroyed, lastSet>>

\* The renderer consumes the scene-level blend-dirty flag.
ClearSceneDirtyBlend ==
    /\ sceneDirtyBlend
    /\ sceneDirtyBlend' = FALSE
    /\ calls' = << >>
    /\ lastOp' = Other
    /\ UNCHANGED <<objectProto, binding, mat, nextId, defaultMaterial, mesh, stencils,
                   shaderFailed, destroyed, lastSet>>

\* The sequence without the first occurrence of x.
RECURSIVE RemoveFirst(_, _)
RemoveFirst(seq, x) ==
    IF seq = << >> THEN << >>
    ELSE IF Head(seq) = x THEN Tail(seq)
    ELSE << Head(seq) >> \o RemoveFirst(Tail(seq), x)

\* The consumer's material setter, on the material heap: detach from the material
\* it pointed at, attach to the new one.
MeshMaterialSetter(heap, mi, prev, target) ==
    LET h1 == IF prev # Null
              THEN [heap EXCEPT ![prev].meshInstances = RemoveFirst(@, mi)]
              ELSE heap
    IN  IF target # Null
        THEN [h1 EXCEPT ![target].meshInstances = Append(@, mi)]
        ELSE h1

\* meshInstance.material = target, done by the consumer side; no caller hands a
\* destroyed material to a consumer.
SetMeshMaterial(mi, target) ==
    /\ mesh[mi].material # target
    /\ target \notin destroyed
    /\ target # Null => Len(mat[target].meshInstances) < MaxList
    /\ mat' = MeshMaterialSetter(mat, mi, mesh[mi].material, target)
    /\ mesh' = [mesh EXCEPT ![mi].material = target]
    /\ calls' = << >>
    /\ lastOp' = Other
    /\ UNCHANGED <<objectProto, binding, nextId, defaultMaterial, sceneDirtyBlend, stencils,
                   shaderFailed, destroyed, lastSet>>

\* The blend state with its collaborators: the preset setter, direct writes of
\* the blend flag, scene attachment, flag consumption, consumers attaching.
NextBlend ==
    \/ \E i \in MatIds, type \in BlendTypes : SetBlendType(i, type)
    \/ \E i \in MatIds, b \in BOOLEAN : AssignBlend(i, b)
    \/ \E i \in MatIds, s \in {Null, Scene} : SetScene(i, s)
    \/ \E i \in MatIds : ClearDirtyBlend(i)
    \/ ClearSceneDirtyBlend
    \/ \E mi \in MeshIds, t \in {Null} \cup MatIds : SetMeshMaterial(mi, t)

SpecBlend == Init /\ [][NextBlend]_vars

----------------------------------------------------------------------------
(* Claims about the blend preset codec *)

\* The preset table of the specification: preset -> <<enabled, src, dst, equation>>.
PresetTuple(P) ==
    CASE P = BLEND_NONE -> <<FALSE, BLENDMODE_ONE, BLENDMODE_ZERO, BLENDEQUATION_ADD>>
      [] P = BLEND_NORMAL ->
            <<TRUE, BLENDMODE_SRC_ALPHA, BLENDMODE_ONE_MINUS_SRC_ALPHA, BLENDEQUATION_ADD>>
      [] P = BLEND_PREMULTIPLIED ->
            <<TRUE, BLENDMODE_ONE, BLENDMODE_ONE_MINUS_SRC_ALPHA, BLENDEQUATION_ADD>>
      [] P = BLEND_ADDITIVE -> <<TRUE, BLENDMODE_ONE, BLENDMODE_ONE, BLENDEQUATION_ADD>>
      [] P = BLEND_ADDITIVEALPHA ->
            <<TRUE, BLENDMODE_SRC_ALPHA, BLENDMODE_ONE, BLENDEQUATION_ADD>>
      [] P = BLEND_MULTIPLICATIVE2X ->
            <<TRUE, BLENDMODE_DST_COLOR, BLENDMODE_SRC_COLOR, BLENDEQUATION_ADD>>
      [] P = BLEND_SCREEN ->
            <<TRUE, BLENDMODE_ONE_MINUS_DST_COLOR, BLENDMODE_ONE, BLENDEQUATION_ADD>>
      [] P = BLEND_MULTIPLICATIVE ->
            <<TRUE, BLENDMODE_DST_COLOR, BLENDMODE_ZERO, BLENDEQUATION_ADD>>
      [] P = BLEND_MIN -> <<TRUE, BLENDMODE_ONE, BLENDMODE_ONE, BLENDEQUATION_MIN>>
      [] P = BLEND_MAX -> <<TRUE, BLENDMODE_ONE, BLENDMODE_ONE, BLENDEQUATION_MAX>>

BlendTuple(m) == <<m.blend, m.blendSrc, m.blendDst, m.blendEquation>>

\* C1: round trip.  Whatever the four blend fields held before, after blendType
\* has been set to one of the ten presets P, reading blendType gives P.
C1_RoundTrip ==
    (lastOp.op = "setBlendType" /\ lastOp.type \in Presets)
        => GetBlendType(mat[lastOp.m]) = lastOp.type

\* C1 witness: the last preset of the getter's cascade has been set and reads back.
C1_Witness ==
    /\ lastOp.op = "setBlendType"
    /\ lastOp.type = BLEND_PREMULTIPLIED
    /\ GetBlendType(mat[lastOp.m]) = BLEND_PREMULTIPLIED

\* C2: fallback decode.  A tuple of the preset table reads as its preset; every
\* other tuple, those with blend off and factors other than (one, zero, add)
\* included, reads as the normal preset.
C2_FallbackDecode ==
    \A i \in MatIds :
        LET hits == {P \in Presets : PresetTuple(P) = BlendTuple(mat[i])}
        IN  IF hits = {} THEN GetBlendType(mat[i]) = BLEND_NORMAL
            ELSE GetBlendType(mat[i]) \in hits

\* C2 witness: blend is off, the factors are not (one, zero, add), and the
\* material reads as normal.
C2_Witness ==
    /\ ~mat[1].blend
    /\ mat[1].blendSrc = BLENDMODE_SRC_COLOR
    /\ mat[1].blendEquation = BLENDEQUATION_MIN
    /\ GetBlendType(mat[1]) = BLEND_NORMAL

----------------------------------------------------------------------------
(* Claims about the blend-dirty signal and the sort keys *)

\* The calls the claims expect of a key recomputation over the consumer list of
\* material m, made when m reads as it does now.
ExpectedKeyCalls(m) ==
    [k \in 1..Len(m.meshInstances) |->
        [fn |-> "updateKey", mi |-> m.meshInstances[k], blendType |-> GetBlendType(m)]]

\* C3: dirty routing.  When setting blendType changes the blend flag, a material
\* with a scene raises the scene's flag and leaves its own flag as it was; a
\* material without a scene raises its own flag and leaves the scene's flag as
\* it was.
C3_DirtyRouting ==
    [][ (lastOp'.op = "setBlendType"
            /\ mat'[lastOp'.m].blend # mat[lastOp'.m].blend)
        => IF mat[lastOp'.m].scene # Null
           THEN /\ sceneDirtyBlend'
                /\ mat'[lastOp'.m].dirtyBlend = mat[lastOp'.m].dirtyBlend
           ELSE /\ mat'[lastOp'.m].dirtyBlend
                /\ sceneDirtyBlend' = sceneDirtyBlend ]_vars

\* C3 witness: a preset flipped the blend flag of a material with a scene; the
\* scene's flag is up and the material's own flag is down.
C3_Witness ==
    /\ lastOp.op = "setBlendType"
    /\ lastOp.prevBlend # mat[lastOp.m].blend
    /\ mat[lastOp.m].scene = Scene
    /\ sceneDirtyBlend
    /\ ~mat[lastOp.m].dirtyBlend

\* C4: every application of the blendType setter calls updateKey() once on each
\* consumer of the list, in list order, whether or not the blend flag changed,
\* and the material already reads as its new preset when the calls are made.
C4_KeysRecomputed ==
    lastOp.op = "setBlendType" => calls = ExpectedKeyCalls(mat[lastOp.m])

\* C4 witness: a preset was applied without changing the blend flag, and both
\* consumers had their key recomputed against the new preset.
C4_Witness ==
    /\ lastOp.op = "setBlendType"
    /\ lastOp.type = BLEND_MAX
    /\ lastOp.prevBlend = mat[lastOp.m].blend
    /\ Len(calls) = 2
    /\ calls[1].mi # calls[2].mi
    /\ calls[2].blendType = BLEND_MAX

\* The blend-dirty signal of material m is raised in the step: the scene's flag
\* if a scene is attached, the material's own flag otherwise.
DirtyRaised(i) ==
    IF mat[i].scene # Null THEN sceneDirtyBlend' ELSE mat'[i].dirtyBlend

\* C5 as claimed: any change of the blend flag, by the preset setter or by a
\* direct write of the field, raises the blend-dirty signal and recomputes the
\* consumers' keys.
C5_AnyMutationSignals ==
    [][ (lastOp'.op \in {"setBlendType", "assignBlend"}
            /\ mat'[lastOp'.m].blend # mat[lastOp'.m].blend)
        => /\ DirtyRaised(lastOp'.m)
           /\ calls' = ExpectedKeyCalls(mat'[lastOp'.m]) ]_vars

\* C5 amended: a change of the blend flag made through the blendType setter
\* raises the blend-dirty signal and recomputes the consumers' keys; a direct
\* write of the blend field changes no dirty flag and recomputes no key.
C5_SetterSignalsDirectWriteDoesNot ==
    [][ /\ (lastOp'.op = "setBlendType"
                /\ mat'[lastOp'.m].blend # mat[lastOp'.m].blend)
            => /\ DirtyRaised(lastOp'.m)
               /\ calls' = ExpectedKeyCalls(mat'[lastOp'.m])
        /\ lastOp'.op = "assignBlend"
            => /\ mat'[lastOp'.m].dirtyBlend = mat[lastOp'.m].dirtyBlend
               /\ sceneDirtyBlend' = sceneDirtyBlend
               /\ calls' = << >> ]_vars

\* C5 witness: the blend flag was switched on by a direct write while a consumer
\* is attached; no flag is up and no key was recomputed.
C5_Witness ==
    /\ lastOp.op = "assignBlend"
    /\ mat[lastOp.m].blend
    /\ Len(mat[lastOp.m].meshInstances) > 0
    /\ ~mat[lastOp.m].dirtyBlend
    /\ ~sceneDirtyBlend
    /\ calls = << >>

----------------------------------------------------------------------------
(* Construction, shaders, variants, destroy *)

NoShaders == [s \in 1..NumSlots |-> Null]
VariantKeys == {"v1"}

\* new Material()
Construct ==
    /\ Len(mat) < MaxMaterials
    /\ mat' = Append(mat, Material(nextId))
    /\ nextId' = nextId + 1
    /\ lastSet' = Append(lastSet, EmptyObj)
    /\ binding' = Append(binding, EmptyObj)
    /\ calls' = << >>
    /\ lastOp' = [op |-> "construct", m |-> Len(mat) + 1]
    /\ UNCHANGED <<objectProto, defaultMaterial, mesh, sceneDirtyBlend, stencils, shaderFailed,
                   destroyed>>

\* Material.defaultMaterial = d, done by the application.
SetDefaultMaterial(d) ==
    /\ defaultMaterial # d
    /\ defaultMaterial' = d
    /\ calls' = << >>
    /\ lastOp' = Other
    /\ UNCHANGED <<objectProto, binding, mat, nextId, mesh, sceneDirtyBlend, stencils, shaderFailed,
                   destroyed, lastSet>>

\* material.shader = sh
AssignShader(i, sh) ==
    /\ mat[i].shader # sh
    /\ mat' = [mat EXCEPT ![i].shader = sh]
    /\ calls' = << >>
    /\ lastOp' = Other
    /\ UNCHANGED <<objectProto, binding, nextId, defaultMaterial, mesh, sceneDirtyBlend, stencils,
                   shaderFailed, destroyed, lastSet>>

\* The renderer caches a compiled variant on the material: variants[key] = sh.
CacheVariant(i, key, sh) ==
    /\ key \notin DOMAIN mat[i].variants
    /\ i \notin destroyed
    /\ mat' = [mat EXCEPT ![i].variants = [x \in {key} |-> sh]]
    /\ calls' = << >>
    /\ lastOp' = Other
    /\ UNCHANGED <<objectProto, binding, nextId, defaultMaterial, mesh, sceneDirtyBlend, stencils,
                   shaderFailed, destroyed, lastSet>>

\* The renderer caches a shader in a slot of the consumer: meshInstance._shader[j] = sh.
CacheShader(mi, j, sh) ==
    /\ mesh[mi].material # Null
    /\ mesh[mi].shader[j] = Null
    /\ mesh' = [mesh EXCEPT ![mi].shader[j] = sh]
    /\ calls' = << >>
    /\ lastOp' = Other
    /\ UNCHANGED <<objectProto, binding, mat, nextId, defaultMaterial, sceneDirtyBlend, stencils,
                   shaderFailed, destroyed, lastSet>>

\* clearVariants(): drop the variants, null every consumer's shader slots.
RECURSIVE ClearSlots(_, _, _)
ClearSlots(meshes, list, k) ==
    IF k > Len(list) THEN meshes
    ELSE ClearSlots([meshes EXCEPT ![list[k]].shader = NoShaders], list, k + 1)

ClearVariants(i) ==
    /\ mat' = [mat EXCEPT ![i].variants = EmptyObj]
    /\ mesh' = ClearSlots(mesh, mat[i].meshInstances, 1)
    /\ calls' = << >>
    /\ lastOp' = Other
    /\ UNCHANGED <<objectProto, binding, nextId, defaultMaterial, sceneDirtyBlend, stencils,
                   shaderFailed, destroyed, lastSet>>

\* A plausible slip in destroy's loop: the consumer's _material is not nulled
\* before the reassignment, so the consumer's setter detaches it from the very
\* list being iterated.
RECURSIVE DestroyConsumersKeepRef(_, _, _, _)
DestroyConsumersKeepRef(st, i, dflt, k) ==
    IF k > Len(st.heap[i].meshInstances) THEN st
    ELSE LET mi == st.heap[i].meshInstances[k]
             m1 == [st.mesh EXCEPT ![mi].shader = NoShaders]
             st1 == IF i # dflt
                    THEN [heap |-> MeshMaterialSetter(st.heap, mi, m1[mi].material, dflt),
                          mesh |-> [m1 EXCEPT ![mi].material = dflt]]
                    ELSE [heap |-> st.heap, mesh |-> m1]
         IN  DestroyConsumersKeepRef(st1, i, dflt, k + 1)

\* destroy(), the loop over this.meshInstances from index k on: null the shader
\* slots, null _material, and unless this is the default material hand the
\* consumer to the default material through the consumer's setter.
RECURSIVE DestroyConsumers(_, _, _, _)
DestroyConsumers(st, i, dflt, k) ==
    IF k > Len(st.heap[i].meshInstances) THEN st
    ELSE LET mi == st.heap[i].meshInstances[k]
             m1 == [st.mesh EXCEPT ![mi].shader = NoShaders, ![mi].material = Null]
             st1 == IF i # dflt
                    THEN [heap |-> MeshMaterialSetter(st.heap, mi, Null, dflt),
                          mesh |-> [m1 EXCEPT ![mi].material = dflt]]
                    ELSE [heap |-> st.heap, mesh |-> m1]
         IN  DestroyConsumers(st1, i, dflt, k + 1)

\* destroy(), whole.
MaterialDestroy(heap, meshes, i, dflt) ==
    DestroyConsumers([heap |-> [heap EXCEPT ![i].variants = EmptyObj, ![i].shader = Null],
                      mesh |-> meshes], i, dflt, 1)

Destroy(i) ==
    LET r == MaterialDestroy(mat, mesh, i, defaultMaterial)
    IN  /\ (i # defaultMaterial /\ defaultMaterial # Null)
              => Len(mat[defaultMaterial].meshInstances) + Len(mat[i].meshInstances)
                    <= MaxList
        /\ mat' = r.heap
        /\ mesh' = r.mesh
        /\ destroyed' = destroyed \cup {i}
        /\ calls' = << >>
        /\ lastOp' = [op |-> "destroy", m |-> i, again |-> i \in destroyed]
        /\ UNCHANGED <<objectProto, binding, nextId, defaultMaterial, sceneDirtyBlend, stencils,
                       shaderFailed, lastSet>>

\* The state destroy is explored from: two materials constructed.
InitDestroy ==
    /\ mat = << Material(0), Material(1) >>
    /\ nextId = 2
    /\ defaultMaterial = Null
    /\ mesh = [i \in MeshIds |-> [material |-> Null, shader |-> NoShaders]]
    /\ sceneDirtyBlend = FALSE
    /\ stencils = << >>
    /\ shaderFailed = [s \in Shaders |-> FALSE]
    /\ calls = << >>
    /\ lastOp = [op |-> "construct", m |-> 2]
    /\ destroyed = {}
    /\ lastSet = << EmptyObj, EmptyObj >>
    /\ binding = << EmptyObj, EmptyObj >>
    /\ objectProto = ObjectPrototype

\* Materials with consumers, a default material, and destroy.
NextDestroy ==
    \/ \E d \in MatIds : SetDefaultMaterial(d)
    \/ \E mi \in MeshIds, t \in {Null} \cup MatIds : SetMeshMaterial(mi, t)
    \/ \E i \in MatIds, sh \in Shaders : AssignShader(i, sh)
    \/ \E i \in MatIds, key \in VariantKeys, sh \in Shaders : CacheVariant(i, key, sh)
    \/ \E mi \in MeshIds, j \in 1..NumSlots, sh \in Shaders : CacheShader(mi, j, sh)
    \/ \E i \in MatIds : ClearVariants(i)
    \/ \E i \in MatIds : Destroy(i)

SpecDestroy == InitDestroy /\ [][NextDestroy]_vars

\* Materials with consumers and a default material, and destroy: the
\* operations that bear on the consumers' material references.
NextFallback ==
    \/ \E d \in MatIds : SetDefaultMaterial(d)
    \/ \E mi \in MeshIds, t \in {Null} \cup MatIds : SetMeshMaterial(mi, t)
    \/ \E i \in MatIds : Destroy(i)

SpecFallback == InitDestroy /\ [][NextFallback]_vars

----------------------------------------------------------------------------
(* Claims about destroy *)

\* The consumers listed by material i, as a set.
Consumers(i) == {mat[i].meshInstances[k] : k \in 1..Len(mat[i].meshInstances)}

\* C6 as claimed: after destroy() of a material that is not the default material
\* every consumer of its list refers to the default material; after destroy()
\* of the default material itself every consumer refers to what it referred to
\* before.
C6_FallbackOrUnchanged ==
    [][ lastOp'.op = "destroy"
        => \A mi \in Consumers(lastOp'.m) :
              IF lastOp'.m # defaultMaterial
              THEN mesh'[mi].material = defaultMaterial
              ELSE mesh'[mi].material = mesh[mi].material ]_vars

\* C6 amended: after destroy() of a material that is not the default material
\* every consumer of its list refers to the default material; after destroy()
\* of the default material itself every consumer of its list refers to no
\* material (null).
C6_FallbackOrNull ==
    [][ lastOp'.op = "destroy"
        => \A mi \in Consumers(lastOp'.m) :
              IF lastOp'.m # defaultMaterial
              THEN mesh'[mi].material = defaultMaterial
              ELSE mesh'[mi].material = Null ]_vars

\* C6 witness: a material other than the default one was destroyed for the first
\* time with both consumers attached, and both now refer to the default material.
C6_Witness ==
    /\ lastOp.op = "destroy"
    /\ ~lastOp.again
    /\ defaultMaterial # Null
    /\ lastOp.m # defaultMaterial
    /\ Consumers(lastOp.m) = MeshIds
    /\ \A mi \in MeshIds : mesh[mi].material = defaultMaterial

\* C6 witness of the other case: the default material itself was destroyed with
\* a consumer attached, and the consumer refers to no material.
C6_WitnessDefault ==
    /\ lastOp.op = "destroy"
    /\ lastOp.m = defaultMaterial
    /\ Consumers(lastOp.m) # {}
    /\ \A mi \in Consumers(lastOp.m) : mesh[mi].material = Null

\* C7, the claim's remark on the collections: once destroy() has run, the
\* variants and the consumer list of the material are empty.
C7_CollectionsEmptyAfterDestroy ==
    lastOp.op = "destroy"
        => /\ mat[lastOp.m].variants = EmptyObj
           /\ mat[lastOp.m].meshInstances = << >>

\* C7 as claimed: destroy() of a material already destroyed is a no-op; it
\* changes neither the material nor any consumer's material reference or shader
\* slots, whatever was done to the consumers since the first destroy().
C7_SecondDestroyChangesNothing ==
    [][ (lastOp'.op = "destroy" /\ lastOp'.again)
        => (mat'[lastOp'.m] = mat[lastOp'.m] /\ mesh' = mesh) ]_vars

----------------------------------------------------------------------------
(* The parameter table *)

Names == {"uFoo", "uBar"}
Values == {"1.0", "2.0"}
UndefinedKey == "undefined"    \* the property key the value undefined converts to

\* f with key k bound to v, k added to the keys if it is new.
Put(f, k, v) == [x \in (DOMAIN f) \cup {k} |-> IF x = k THEN v ELSE f[x]]

\* f without key k.
Without(f, k) == [x \in (DOMAIN f) \ {k} |-> f[x]]

\* Object.prototype.scopeId and Object.prototype.data, which every object
\* without an own property of that name reads.
ProtoScopeId(proto) == proto.objects[ProtoKey].scopeId
ProtoData(proto) == proto.objects[ProtoKey].data

\* What a read of .data gives on an object whose own data property is own.
ReadData(proto, own) ==
    IF own # Absent THEN own
    ELSE IF ProtoData(proto) # Absent THEN ProtoData(proto) ELSE Undefined

\* What a read of .scopeId gives on an object whose own scopeId is own (a
\* handle, or Null for none).
ReadScopeId(proto, own) == IF own # Null THEN own ELSE ProtoScopeId(proto)

Truthy(v) == v \notin {Undefined, Absent}

\* What this.parameters[name] evaluates to, st being the table and
\* Object.prototype:
\*   "entry"      an own entry of the table;
\*   "inherited"  a function of Object.prototype, or Object.prototype itself;
\*   "value"      the number at Object.prototype.data, for the name "data";
\*   "handle"     the handle object at Object.prototype.scopeId, for "scopeId";
\*   "none"       undefined, or a falsy value.
Lookup(st, name) ==
    IF name \in DOMAIN st.parameters THEN "entry"
    ELSE IF name \in InheritedNames THEN "inherited"
    ELSE IF name = "data" /\ Truthy(ProtoData(st.proto)) THEN "value"
    ELSE IF name = "scopeId" /\ ProtoScopeId(st.proto) # Null THEN "handle"
    ELSE "none"

\* The enumerable names of Object.prototype with name added, if it is new.
WithEnumerable(proto, name) ==
    IF \E k \in DOMAIN proto.enumerable : proto.enumerable[k] = name THEN proto
    ELSE [proto EXCEPT !.enumerable = Append(@, name)]

\* A plausible slip: the existing entry is replaced by a fresh one.
UpsertReplacing(st, name, data) ==
    [st EXCEPT !.parameters = Put(@, name, [scopeId |-> Null, data |-> data])]

\* The tail of setParameter: param = this.parameters[name]; if it is truthy,
\* param.data = data, on the own entry, on the inherited function, on
\* Object.prototype itself (which gains the enumerable name "data"), or on the
\* handle object; on a number the assignment throws a TypeError, the code being
\* strict.  Otherwise the entry is created.
Upsert(st, name, data) ==
    LET found == Lookup(st, name)
    IN  CASE found = "entry" -> [st EXCEPT !.parameters[name].data = data]
          [] found = "inherited" ->
                [st EXCEPT !.proto =
                    LET p == [@ EXCEPT !.objects[name].data = data]
                    IN  IF name = ProtoKey THEN WithEnumerable(p, "data") ELSE p]
          [] found = "value" -> [st EXCEPT !.thrown = TRUE]
          [] found = "handle" -> [st EXCEPT !.proto.handleData = data]
          [] found = "none" ->
                [st EXCEPT !.parameters = Put(@, name, [scopeId |-> Null, data |-> data])]

\* setParameter(uniformObject[k]) for k from the given index on: each element is
\* an object without a length, so its name and value are upserted; a throw
\* ends the loop.
RECURSIVE SetEach(_, _, _)
SetEach(st, items, k) ==
    IF k > Len(items) \/ st.thrown THEN st
    ELSE SetEach(Upsert(st, items[k].name, items[k].value), items, k + 1)

\* setParameter(name, data), by the shape of its arguments:
\*   "value":  a string name and a value;
\*   "object": one {name, value} object and no second argument;
\*   "array":  an array of {name, value} objects and no second argument.  The
\*             loop runs only if uniformObject.length is truthy; an empty
\*             array falls through to name = array.name, data = array.value,
\*             both undefined.
SetParameterOp(st, arg) ==
    CASE arg.kind = "value" -> Upsert(st, arg.name, arg.data)
      [] arg.kind = "object" -> Upsert(st, arg.name, arg.value)
      [] arg.kind = "array" ->
            IF Len(arg.items) # 0
            THEN SetEach(st, arg.items, 1)
            ELSE Upsert(st, UndefinedKey, Undefined)

\* The record of a TypeError thrown out of the operation.
ThrowCall == [fn |-> "throw", error |-> "TypeError"]

\* What the claims expect of setParameter on the record of last values: one
\* binding per pair, in order; nothing for an empty array.
RECURSIVE NoteEach(_, _, _)
NoteEach(f, items, k) ==
    IF k > Len(items) THEN f
    ELSE NoteEach(Put(f, items[k].name, items[k].value), items, k + 1)

NoteSet(f, arg) ==
    CASE arg.kind = "value" -> Put(f, arg.name, arg.data)
      [] arg.kind = "object" -> Put(f, arg.name, arg.value)
      [] arg.kind = "array" -> NoteEach(f, arg.items, 1)

\* History of the entries of a table: an entry that stays keeps its record, a
\* new entry starts unresolved and unsubmitted, a removed entry is forgotten.
NoteEntries(b, params) ==
    [n \in DOMAIN params |->
        IF n \in DOMAIN b THEN b[n] ELSE [resolves |-> 0, submitted |-> FALSE]]

\* The names besides the ordinary ones that the operations are given: an
\* inherited function, Object.prototype itself, and the two property names
\* the operations write.
PollutingNames == {"toString", ProtoKey, "data", "scopeId"}

Pairs == [name : Names, value : Values]
Arrays == UNION {[1..n -> Pairs] : n \in 0..MaxBatch}

SetParameterArgs ==
    [kind : {"value"}, name : Names \cup PollutingNames, data : Values]
        \cup [kind : {"object"}, name : Names, value : Values]
        \cup [kind : {"array"}, items : Arrays]

\* material.setParameter(...)
SetParameter(i, arg) ==
    /\ LET r == SetParameterOp([parameters |-> mat[i].parameters,
                                proto |-> objectProto, thrown |-> FALSE], arg)
       IN  /\ mat' = [mat EXCEPT ![i].parameters = r.parameters]
           /\ objectProto' = r.proto
           /\ calls' = IF r.thrown THEN <<ThrowCall>> ELSE << >>
    /\ lastSet' = [lastSet EXCEPT ![i] = NoteSet(@, arg)]
    /\ binding' = [binding EXCEPT ![i] = NoteEntries(@, mat'[i].parameters)]
    /\ lastOp' = [op |-> "setParameter", m |-> i, arg |-> arg]
    /\ UNCHANGED <<nextId, defaultMaterial, mesh, sceneDirtyBlend, stencils,
                   shaderFailed, destroyed>>

\* material.deleteParameter(name): an own entry is deleted; for an inherited
\* name the test is true and delete finds no own property to remove.
DeleteParameter(i, name) ==
    /\ mat' = [mat EXCEPT ![i].parameters =
                  IF name \in DOMAIN @ THEN Without(@, name) ELSE @]
    /\ lastSet' = [lastSet EXCEPT ![i] = Without(@, name)]
    /\ binding' = [binding EXCEPT ![i] = NoteEntries(@, mat'[i].parameters)]
    /\ calls' = << >>
    /\ lastOp' = [op |-> "deleteParameter", m |-> i]
    /\ UNCHANGED <<objectProto, nextId, defaultMaterial, mesh, sceneDirtyBlend, stencils,
                   shaderFailed, destroyed>>

\* material.clearParameters()
ClearParameters(i) ==
    /\ mat' = [mat EXCEPT ![i].parameters = EmptyObj]
    /\ lastSet' = [lastSet EXCEPT ![i] = EmptyObj]
    /\ binding' = [binding EXCEPT ![i] = EmptyObj]
    /\ calls' = << >>
    /\ lastOp' = [op |-> "clearParameters", m |-> i]
    /\ UNCHANGED <<objectProto, nextId, defaultMaterial, mesh, sceneDirtyBlend, stencils,
                   shaderFailed, destroyed>>

\* The parameter table of a material under its own operations.
NextParams ==
    \/ \E i \in MatIds, arg \in SetParameterArgs : SetParameter(i, arg)
    \/ \E i \in MatIds, name \in Names \cup PollutingNames \cup {UndefinedKey} :
            DeleteParameter(i, name)
    \/ \E i \in MatIds : ClearParameters(i)

SpecParams == Init /\ [][NextParams]_vars

----------------------------------------------------------------------------
(* Claims about the parameter table *)

\* C10 as claimed: setParameter is an upsert keyed by name.  The table holds
\* exactly one entry per name set (and not deleted since), carrying the last
\* value set for it, where an array of pairs counts as setting each pair in
\* order and an empty array as setting nothing.
C10_UpsertAndBatch ==
    \A i \in MatIds :
        /\ DOMAIN mat[i].parameters = DOMAIN lastSet[i]
        /\ \A n \in DOMAIN lastSet[i] : mat[i].parameters[n].data = lastSet[i][n]

----------------------------------------------------------------------------
(* Render-state fields written directly, stencil blocks, clone *)

\* The fields _cloneInternal copies by plain assignment.
CopiedFields ==
    {"name", "shader", "alphaTest", "alphaToCoverage",
     "blend", "blendSrc", "blendDst", "blendEquation",
     "separateAlphaBlend", "blendSrcAlpha", "blendDstAlpha", "blendAlphaEquation",
     "cull", "depthTest", "depthWrite", "depthBias", "slopeDepthBias",
     "redWrite", "greenWrite", "blueWrite", "alphaWrite"}

\* The render-state fields the application writes directly, each with the value
\* other than its default that the model writes.
AltValue(f) ==
    CASE f = "name" -> "Glass"
      [] f \in {"alphaTest", "depthBias", "slopeDepthBias"} -> 1
      [] f \in {"alphaToCoverage", "blend", "separateAlphaBlend"} -> TRUE
      [] f \in {"depthTest", "depthWrite", "redWrite", "greenWrite", "blueWrite",
                "alphaWrite"} -> FALSE
      [] f \in {"blendSrc", "blendSrcAlpha"} -> BLENDMODE_SRC_ALPHA
      [] f \in {"blendDst", "blendDstAlpha"} -> BLENDMODE_ONE_MINUS_SRC_ALPHA
      [] f \in {"blendEquation", "blendAlphaEquation"} -> BLENDEQUATION_MAX
      [] f = "cull" -> 0

AssignableFields == CopiedFields \ {"shader"}

\* The constructor's defaults, and the fields of m that do not hold theirs.
Defaults == Material(0)
Changed(m) == {f \in AssignableFields : m[f] # Defaults[f]}

\* material[f] = v for a render-state field (or the name).
AssignField(i, f, v) ==
    /\ mat[i][f] # v
    /\ mat' = [mat EXCEPT ![i][f] = v]
    /\ calls' = << >>
    /\ lastOp' = Other
    /\ UNCHANGED <<objectProto, binding, nextId, defaultMaterial, mesh, sceneDirtyBlend, stencils,
                   shaderFailed, destroyed, lastSet>>

StencilRefs == {1, 2}     \* the contents a stencil block is given

\* material.stencilFront / stencilBack = new StencilParameters({ref: r})
AssignNewStencil(i, side, r) ==
    /\ Len(stencils) < MaxUserStencils
    /\ stencils' = Append(stencils, [ref |-> r])
    /\ mat' = [mat EXCEPT ![i][side] = Len(stencils) + 1]
    /\ calls' = << >>
    /\ lastOp' = Other
    /\ UNCHANGED <<objectProto, binding, nextId, defaultMaterial, mesh, sceneDirtyBlend,
                   shaderFailed, destroyed, lastSet>>

\* material.stencilFront / stencilBack = an existing block, or null.
AssignStencil(i, side, ref) ==
    /\ mat[i][side] # ref
    /\ mat' = [mat EXCEPT ![i][side] = ref]
    /\ calls' = << >>
    /\ lastOp' = Other
    /\ UNCHANGED <<objectProto, binding, nextId, defaultMaterial, mesh, sceneDirtyBlend, stencils,
                   shaderFailed, destroyed, lastSet>>

\* StencilParameters.clone(): a new block with the contents of block ref.
StencilClone(heap, ref) == Append(heap, heap[ref])

\* A plausible slip: the back block is always cloned on its own.
CloneStencilsNoAlias(src, clone, heap) ==
    LET h1 == IF src.stencilFront # Null THEN StencilClone(heap, src.stencilFront)
              ELSE heap
        c1 == IF src.stencilFront # Null THEN [clone EXCEPT !.stencilFront = Len(h1)]
              ELSE clone
    IN  IF src.stencilBack # Null
        THEN [clone |-> [c1 EXCEPT !.stencilBack = Len(h1) + 1],
              stencils |-> StencilClone(h1, src.stencilBack)]
        ELSE [clone |-> c1, stencils |-> h1]

\* _cloneInternal, the stencil lines: clone the front block if there is one; if
\* there is a back block, reuse the clone's front block when the source's two
\* sides are one object, clone the back block otherwise.
CloneStencils(src, clone, heap) ==
    LET h1 == IF src.stencilFront # Null THEN StencilClone(heap, src.stencilFront)
              ELSE heap
        c1 == IF src.stencilFront # Null THEN [clone EXCEPT !.stencilFront = Len(h1)]
              ELSE clone
    IN  IF src.stencilBack # Null
        THEN IF src.stencilFront = src.stencilBack
             THEN [clone |-> [c1 EXCEPT !.stencilBack = c1.stencilFront],
                   stencils |-> h1]
             ELSE [clone |-> [c1 EXCEPT !.stencilBack = Len(h1) + 1],
                   stencils |-> StencilClone(h1, src.stencilBack)]
        ELSE [clone |-> c1, stencils |-> h1]

\* A plausible slip: the clone is also handed the source's parameter table.
CloneInternalWithParameters(src, clone, heap) ==
    CloneStencils(src,
        [f \in DOMAIN clone |->
            IF f \in CopiedFields \cup {"parameters"} THEN src[f] ELSE clone[f]],
        heap)

\* A plausible slip: the clone is also handed the source's id.
CloneInternalWithId(src, clone, heap) ==
    CloneStencils(src,
        [f \in DOMAIN clone |->
            IF f \in CopiedFields \cup {"id"} THEN src[f] ELSE clone[f]],
        heap)

\* _cloneInternal: the plain field copies, then the stencil blocks.
CloneInternal(src, clone, heap) ==
    CloneStencils(src,
        [f \in DOMAIN clone |-> IF f \in CopiedFields THEN src[f] ELSE clone[f]],
        heap)

\* material.clone(): new Material(), _cloneInternal(clone), return clone.
Clone(i) ==
    LET r == CloneInternal(mat[i], Material(nextId), stencils)
    IN  /\ Len(mat) < MaxMaterials
        /\ mat' = Append(mat, r.clone)
        /\ stencils' = r.stencils
        /\ nextId' = nextId + 1
        /\ lastSet' = Append(lastSet, EmptyObj)
        /\ binding' = Append(binding, EmptyObj)
        /\ calls' = << >>
        /\ lastOp' = [op |-> "clone", m |-> Len(mat) + 1, src |-> i]
        /\ UNCHANGED <<objectProto, defaultMaterial, mesh, sceneDirtyBlend, shaderFailed, destroyed>>

\* What the application has set up on a material: fields off their defaults,
\* a shader, stencil blocks, parameters, consumers.
SetupOf(m) ==
    Cardinality(Changed(m)) + Cardinality(DOMAIN m.parameters) + Len(m.meshInstances)
        + (IF m.shader # Null THEN 1 ELSE 0)
        + (IF m.stencilFront # Null THEN 1 ELSE 0)
        + (IF m.stencilBack # Null THEN 1 ELSE 0)

RECURSIVE SetupSize(_, _)
SetupSize(heap, k) == IF k = 0 THEN 0 ELSE SetupOf(heap[k]) + SetupSize(heap, k - 1)

\* The application's writes to its materials.
CloneSetup ==
    \/ \E i \in MatIds, f \in AssignableFields :
            AssignField(i, f, AltValue(f)) \/ AssignField(i, f, Defaults[f])
    \/ \E i \in MatIds, side \in {"stencilFront", "stencilBack"}, r \in StencilRefs :
            AssignNewStencil(i, side, r)
    \/ \E i \in MatIds, side \in {"stencilFront", "stencilBack"},
          ref \in {Null} \cup (1..Len(stencils)) : AssignStencil(i, side, ref)
    \/ \E i \in MatIds, sh \in Shaders \cup {Null} : AssignShader(i, sh)
    \/ \E i \in MatIds, n \in Names, v \in Values :
            SetParameter(i, [kind |-> "value", name |-> n, data |-> v])
    \/ \E mi \in MeshIds, t \in {Null} \cup MatIds : SetMeshMaterial(mi, t)

\* A material set up by the application, within the bound, and then cloned:
\* the writes are made before the first clone is taken.
NextClone ==
    \/ \E i \in MatIds : Clone(i)
    \/ (Len(mat) = 1 /\ CloneSetup /\ SetupSize(mat', Len(mat')) <= MaxSetup)

SpecClone == Init /\ [][NextClone]_vars

----------------------------------------------------------------------------
(* Claims about clone *)

\* C8: stencil aliasing under clone().  If the source's two stencil sides are
\* one object, the clone's two sides are one object too, and not the source's;
\* if they are two objects, the clone's are two objects, each a copy held by no
\* other material; a side that is null in the source is null in the clone.
C8_StencilAlias ==
    lastOp.op = "clone" =>
        LET src == mat[lastOp.src]
            c == mat[lastOp.m]
            others == {mat[j].stencilFront : j \in MatIds \ {lastOp.m}}
                          \cup {mat[j].stencilBack : j \in MatIds \ {lastOp.m}}
        IN  /\ (src.stencilFront = Null) <=> (c.stencilFront = Null)
            /\ (src.stencilBack = Null) <=> (c.stencilBack = Null)
            /\ (src.stencilFront # Null /\ src.stencilFront = src.stencilBack)
                  => (c.stencilFront = c.stencilBack /\ c.stencilFront \notin others)
            /\ (src.stencilFront # Null /\ src.stencilBack # Null
                    /\ src.stencilFront # src.stencilBack)
                  => /\ c.stencilFront # c.stencilBack
                     /\ c.stencilFront \notin others
                     /\ c.stencilBack \notin others
                     /\ stencils[c.stencilFront] = stencils[src.stencilFront]
                     /\ stencils[c.stencilBack] = stencils[src.stencilBack]

\* C8 witness: a material whose two sides are one stencil block was cloned, and
\* the clone's two sides are one block of its own.
C8_Witness ==
    /\ lastOp.op = "clone"
    /\ mat[lastOp.src].stencilFront # Null
    /\ mat[lastOp.src].stencilFront = mat[lastOp.src].stencilBack
    /\ mat[lastOp.m].stencilFront = mat[lastOp.m].stencilBack
    /\ mat[lastOp.m].stencilFront # mat[lastOp.src].stencilFront

\* The render-state fields held by value.
RenderStateFields ==
    {"alphaTest", "alphaToCoverage", "blend", "blendSrc", "blendDst", "blendEquation",
     "separateAlphaBlend", "blendSrcAlpha", "blendDstAlpha", "blendAlphaEquation",
     "cull", "depthTest", "depthWrite", "depthBias", "slopeDepthBias",
     "redWrite", "greenWrite", "blueWrite", "alphaWrite"}

\* Two stencil references, each in its own heap, hold equal state: both null, or
\* blocks of equal contents.
SameStencil(h1, r1, h2, r2) ==
    IF r1 = Null \/ r2 = Null THEN r1 = r2 ELSE h1[r1] = h2[r2]

\* C9: clone() returns a new material whose render-state fields, and so its
\* blendType, equal the source's, whose shader is the source's shader object,
\* and whose parameter table and consumer list are empty whatever the source
\* holds; every material that existed before, the source included, is as it was.
C9_CloneCopiesState ==
    [][ lastOp'.op = "clone" =>
          LET src == mat[lastOp'.src]
              c == mat'[lastOp'.m]
          IN  /\ lastOp'.m = Len(mat) + 1
              /\ Len(mat') = Len(mat) + 1
              /\ \A f \in RenderStateFields : c[f] = src[f]
              /\ SameStencil(stencils', c.stencilFront, stencils, src.stencilFront)
              /\ SameStencil(stencils', c.stencilBack, stencils, src.stencilBack)
              /\ GetBlendType(c) = GetBlendType(src)
              /\ c.shader = src.shader
              /\ c.parameters = EmptyObj
              /\ c.meshInstances = << >>
              /\ \A j \in 1..Len(mat) : mat'[j] = mat[j]
              /\ SubSeq(stencils', 1, Len(stencils)) = stencils
              /\ mesh' = mesh ]_vars

\* C9 witness: a material with a parameter and a consumer was cloned; the clone
\* has neither.
C9_Witness ==
    /\ lastOp.op = "clone"
    /\ DOMAIN mat[lastOp.src].parameters # {}
    /\ Len(mat[lastOp.src].meshInstances) > 0
    /\ mat[lastOp.m].parameters = EmptyObj
    /\ mat[lastOp.m].meshInstances = << >>


----------------------------------------------------------------------------
(* Submitting the parameters to a device: setParameters(device, names) *)

NumDevices == 1
Devices == 1..NumDevices

MaxNames == 2

\* The keys the names objects and the parameter operations of the model use.
Keys == Names \cup {"toString", ProtoKey}

\* Every name the resolver can be asked for, in a fixed order.
KeyList ==
    <<"uFoo", "uBar", UndefinedKey, "data", "scopeId", "0", "1", ProtoKey,
      "constructor", "hasOwnProperty", "isPrototypeOf", "propertyIsEnumerable",
      "toLocaleString", "toString", "valueOf", "__defineGetter__",
      "__defineSetter__", "__lookupGetter__", "__lookupSetter__">>

KeyIndex(name) == CHOOSE k \in DOMAIN KeyList : KeyList[k] = name

\* device.scope.resolve(name): the handle of that name in the scope of that
\* device, one object per device and name, never null.
Resolve(device, name) == (device - 1) * Len(KeyList) + KeyIndex(name)

ResolveCall(device, name) == [fn |-> "resolve", device |-> device, name |-> name]
SetValueCall(scopeId, data) == [fn |-> "setValue", scopeId |-> scopeId, value |-> data]

\* The enumerations of a set of keys: for...in visits the own keys of an object
\* once each, in the order the object holds them.
Orders(S) ==
    {q \in [1..Cardinality(S) -> S] : \A a, b \in DOMAIN q : a # b => q[a] # q[b]}

\* The keys for...in visits when names is an array: its indices, whatever
\* strings the array holds.
IndexKeys == <<"0", "1">>
ArrayNamesArgs == {SubSeq(IndexKeys, 1, n) : n \in 1..Len(IndexKeys)}

\* The names arguments of the model, each as the enumeration of its own keys:
\* an object keyed by parameter names, or an array.
NamesArgs ==
    UNION {Orders(S) : S \in {T \in SUBSET Keys : Cardinality(T) <= MaxNames}}
        \cup ArrayNamesArgs

Range(q) == {q[k] : k \in DOMAIN q}

\* The keys for...in visits on an object with the given own keys: the own keys,
\* then the enumerable names of Object.prototype no own key shadows, as they
\* stand when the loop starts.
RECURSIVE Unshadowed(_, _, _)
Unshadowed(enumerable, own, k) ==
    IF k > Len(enumerable) THEN << >>
    ELSE (IF enumerable[k] \in own THEN << >> ELSE <<enumerable[k]>>)
            \o Unshadowed(enumerable, own, k + 1)

VisitedKeys(names, proto) == names \o Unshadowed(proto.enumerable, Range(names), 1)

\* parameter.scopeId and parameter.data as the loop body reads them, by what
\* parameters[paramName] is: an own entry holds both itself; a function or
\* Object.prototype reads its own property or else Object.prototype's; a number
\* reads Object.prototype's; the handle object reads Object.prototype.scopeId,
\* which is itself, and its own data or else Object.prototype's.
ParameterScopeId(st, found, paramName) ==
    CASE found = "entry" -> st.parameters[paramName].scopeId
      [] found = "inherited" ->
            ReadScopeId(st.proto, st.proto.objects[paramName].scopeId)
      [] found \in {"value", "handle"} -> ProtoScopeId(st.proto)

ParameterData(st, found, paramName) ==
    CASE found = "entry" -> st.parameters[paramName].data
      [] found = "inherited" -> ReadData(st.proto, st.proto.objects[paramName].data)
      [] found = "value" -> ProtoData(st.proto)
      [] found = "handle" -> ReadData(st.proto, st.proto.handleData)

\* parameter.scopeId = scopeId: on the own entry, on the function, or on
\* Object.prototype itself, which gains the enumerable name "scopeId".
WithScopeId(st, found, paramName, scopeId) ==
    CASE found = "entry" -> [st EXCEPT !.parameters[paramName].scopeId = scopeId]
      [] found = "inherited" ->
            [st EXCEPT !.proto =
                LET p == [@ EXCEPT !.objects[paramName].scopeId = scopeId]
                IN  IF paramName = ProtoKey THEN WithEnumerable(p, "scopeId") ELSE p]

\* The loop body with the handle resolved on every pass.
BindAlwaysResolves(st, device, paramName) ==
    LET found == Lookup(st, paramName)
        scopeId == Resolve(device, paramName)
    IN  IF found = "none" THEN st
        ELSE IF found \in {"value", "handle"}
        THEN [st EXCEPT !.calls = @ \o <<ResolveCall(device, paramName)>>,
                        !.thrown = TRUE]
        ELSE [WithScopeId(st, found, paramName, scopeId) EXCEPT
                 !.calls = @ \o <<ResolveCall(device, paramName),
                                  SetValueCall(scopeId,
                                               ParameterData(st, found, paramName))>>]

\* The loop body: parameter = parameters[paramName]; if it is truthy (an own
\* entry, or something inherited from Object.prototype), the handle is resolved
\* and stored when parameter.scopeId reads falsy, and parameter.data is pushed
\* through the handle.  Storing the handle on a number throws a TypeError, the
\* code being strict, after the resolver has been called.
Bind(st, device, paramName) ==
    LET found == Lookup(st, paramName)
    IN  IF found = "none" THEN st
        ELSE LET resolved == ParameterScopeId(st, found, paramName) = Null
                 scopeId == IF resolved THEN Resolve(device, paramName)
                            ELSE ParameterScopeId(st, found, paramName)
                 data == ParameterData(st, found, paramName)
             IN  IF ~resolved
                 THEN [st EXCEPT !.calls = @ \o <<SetValueCall(scopeId, data)>>]
                 ELSE IF found = "value"
                 THEN [st EXCEPT !.calls = @ \o <<ResolveCall(device, paramName)>>,
                                 !.thrown = TRUE]
                 ELSE [WithScopeId(st, found, paramName, scopeId) EXCEPT
                          !.calls = @ \o <<ResolveCall(device, paramName),
                                           SetValueCall(scopeId, data)>>]

\* The loop over the keys; a throw ends it.
RECURSIVE BindEach(_, _, _, _)
BindEach(st, device, names, k) ==
    IF k > Len(names) \/ st.thrown THEN st
    ELSE BindEach(Bind(st, device, names[k]), device, names, k + 1)

\* setParameters(device, names) on a parameter table and Object.prototype;
\* names is the enumeration of the own keys of the object passed, or of the
\* table itself when none is.
SetParametersOp(parameters, proto, device, names) ==
    LET r == BindEach([parameters |-> parameters, proto |-> proto,
                       calls |-> << >>, thrown |-> FALSE],
                      device, VisitedKeys(names, proto), 1)
    IN  [r EXCEPT !.calls = IF r.thrown THEN @ \o <<ThrowCall>> ELSE @]

\* The resolver calls of a log that ask for one name.
ResolveCount(log, name) ==
    Cardinality({k \in DOMAIN log : log[k].fn = "resolve" /\ log[k].name = name})

\* History of a submission: every entry visited is submitted, and the resolver
\* calls of the log are counted against the entry they were made for.
NoteSubmit(b, names, log) ==
    [n \in DOMAIN b |->
        [resolves |-> b[n].resolves + ResolveCount(log, n),
         submitted |-> b[n].submitted \/ n \in Range(names)]]

\* material.setParameters(device, names); given is FALSE when names is
\* undefined, and names is then an enumeration of the table's own keys.
SetParameters(i, device, given, names) ==
    LET r == SetParametersOp(mat[i].parameters, objectProto, device, names)
    IN  /\ given \/ names \in Orders(DOMAIN mat[i].parameters)
        /\ mat' = [mat EXCEPT ![i].parameters = r.parameters]
        /\ objectProto' = r.proto
        /\ calls' = r.calls
        /\ binding' = [binding EXCEPT ![i] = NoteSubmit(@, names, r.calls)]
        /\ lastOp' = [op |-> "setParameters", m |-> i, device |-> device,
                      given |-> given, names |-> names]
        /\ UNCHANGED <<nextId, defaultMaterial, mesh, sceneDirtyBlend, stencils,
                       shaderFailed, destroyed, lastSet>>

\* The parameter table under its own operations and submissions to devices.
NextBind ==
    \/ \E i \in MatIds, n \in Keys, v \in Values :
            SetParameter(i, [kind |-> "value", name |-> n, data |-> v])
    \/ \E i \in MatIds, name \in Keys : DeleteParameter(i, name)
    \/ \E i \in MatIds : ClearParameters(i)
    \/ \E i \in MatIds, device \in Devices, names \in NamesArgs :
            SetParameters(i, device, TRUE, names)
    \/ \E i \in MatIds, device \in Devices :
            \E names \in Orders(DOMAIN mat[i].parameters) :
                SetParameters(i, device, FALSE, names)

SpecBind == Init /\ [][NextBind]_vars

----------------------------------------------------------------------------
(* Claims about submitting parameters *)

\* The setValue calls of a log, as a set.
SetValueCalls(log) == {log[k] : k \in {j \in DOMAIN log : log[j].fn = "setValue"}}

\* C11, first part: every entry that was ever submitted has had the resolver
\* called exactly once for it, and an entry never submitted not at all.
C11_ResolvedOnce ==
    \A i \in 1..Len(mat') : \A n \in DOMAIN mat'[i].parameters :
        binding'[i][n].resolves = IF binding'[i][n].submitted THEN 1 ELSE 0

\* C11, second part: a value update keeps every entry and its cached handle.
C11_HandleKept ==
    lastOp'.op = "setParameter" =>
        LET i == lastOp'.m
        IN  \A n \in DOMAIN mat[i].parameters :
                /\ n \in DOMAIN mat'[i].parameters
                /\ mat'[i].parameters[n].scopeId = mat[i].parameters[n].scopeId

\* C11, third part: a submission pushes the current value of every requested
\* name that has an entry through the handle of that entry, once each, makes no
\* call for a requested name without an entry, and leaves every entry outside
\* the request, and every value, as it was.
C11_Pushes ==
    lastOp'.op = "setParameters" =>
        LET i == lastOp'.m
            before == mat[i].parameters
            after == mat'[i].parameters
            requested == Range(lastOp'.names) \cap DOMAIN before
        IN  /\ ~lastOp'.given => requested = DOMAIN before
            /\ DOMAIN after = DOMAIN before
            /\ \A n \in requested :
                  /\ after[n].scopeId # Null
                  /\ after[n].data = before[n].data
                  /\ before[n].scopeId # Null => after[n].scopeId = before[n].scopeId
            /\ \A n \in DOMAIN before \ requested : after[n] = before[n]
            /\ SetValueCalls(calls') =
                  {SetValueCall(after[n].scopeId, before[n].data) : n \in requested}
            /\ Cardinality({k \in DOMAIN calls' : calls'[k].fn = "setValue"})
                  = Cardinality(requested)
            /\ \A j \in 1..Len(mat) : j # i => mat'[j] = mat[j]

\* C11: lazy binding is memoized. Over any sequence of setParameter and
\* setParameters calls the resolver is called exactly once for each entry ever
\* submitted, the handle is cached on the entry and kept across value updates,
\* and each setParameters call pushes the current value of every requested name
\* that has an entry (all entries when no names are given) through its handle,
\* skips requested names without an entry and touches no entry outside the
\* request.
C11_LazyBindingMemoized ==
    [][C11_ResolvedOnce /\ C11_HandleKept /\ C11_Pushes]_vars

\* The step names no property inherited from Object.prototype.
OwnNamesOnly ==
    /\ lastOp'.op = "setParameter" => lastOp'.arg.name \notin InheritedNames
    /\ lastOp'.op = "setParameters" => Range(lastOp'.names) \cap InheritedNames = {}

\* C11 on names that are not inherited: while Object.prototype has gained no
\* enumerable name, what the claim says holds of every step that sets or
\* requests no name inherited from Object.prototype, and such a step writes
\* nothing onto Object.prototype.
C11_MemoizedOnOwnNames ==
    [][(OwnNamesOnly /\ objectProto.enumerable = << >>) =>
          /\ C11_ResolvedOnce /\ C11_HandleKept /\ C11_Pushes
          /\ objectProto' = objectProto]_vars

\* C11 witness: a submission of a subset of names, one of them without an entry
\* and one entry left outside, that pushed the value of an entry through the
\* handle an earlier submission had cached, with no resolver call.
C11_Witness ==
    /\ lastOp.op = "setParameters"
    /\ lastOp.given
    /\ \E n \in Range(lastOp.names) : n \notin DOMAIN mat[lastOp.m].parameters
    /\ \E n \in DOMAIN mat[lastOp.m].parameters : n \notin Range(lastOp.names)
    /\ \E n \in Range(lastOp.names) \cap DOMAIN mat[lastOp.m].parameters :
          /\ binding[lastOp.m][n].resolves = 1
          /\ mat[lastOp.m].parameters[n].data = "2.0"
    /\ calls # << >>
    /\ \A k \in DOMAIN calls : calls[k].fn = "setValue"


----------------------------------------------------------------------------
(* Claims about a blendType the setter has no case for *)

\* The step assigns blendType a value outside the ten presets.
UnknownTypeSet == lastOp'.op = "setBlendType" /\ lastOp'.type \notin Presets

\* C12 as stated: setting blendType to a value that is not one of the ten
\* presets changes no field of the material, sets neither the local nor the
\* scene-level blend-dirty flag, and no call reaches the consumers.
C12_UnknownTypeSilent ==
    [][UnknownTypeSet =>
          /\ mat' = mat
          /\ sceneDirtyBlend' = sceneDirtyBlend
          /\ calls' = << >>]_vars

\* C12, amended: setting blendType to a value that is not one of the ten
\* presets changes no field of any material and sets neither blend-dirty flag,
\* and the consumers themselves are left as they were; but updateKey is still
\* called once on each consumer of the material, in list order.
C12_UnknownTypeKeepsState ==
    [][UnknownTypeSet =>
          /\ mat' = mat
          /\ sceneDirtyBlend' = sceneDirtyBlend
          /\ mesh' = mesh
          /\ calls' = ExpectedKeyCalls(mat[lastOp'.m])]_vars

\* C12 witness: blendType was set to a value without a case on a blending
\* material that has a consumer, and the consumer's key was recomputed.
C12_Witness ==
    /\ lastOp.op = "setBlendType"
    /\ lastOp.type \notin Presets
    /\ mat[lastOp.m].blend
    /\ mat[lastOp.m].meshInstances # << >>
    /\ Len(calls) = Len(mat[lastOp.m].meshInstances)
    /\ calls[1].fn = "updateKey"


----------------------------------------------------------------------------
(* A material set up by the application and given presets *)

\* update(): dirty = true, and the failed flag of the attached shader is cleared.
Update(i) ==
    /\ mat' = [mat EXCEPT ![i].dirty = TRUE]
    /\ shaderFailed' = IF mat[i].shader # Null
                       THEN [shaderFailed EXCEPT ![mat[i].shader] = FALSE]
                       ELSE shaderFailed
    /\ calls' = << >>
    /\ lastOp' = [op |-> "update", m |-> i]
    /\ UNCHANGED <<objectProto, binding, nextId, defaultMaterial, mesh, sceneDirtyBlend, stencils,
                   destroyed, lastSet>>

\* The renderer has processed the material: material.dirty = false.
ClearDirty(i) ==
    /\ mat[i].dirty
    /\ mat' = [mat EXCEPT ![i].dirty = FALSE]
    /\ calls' = << >>
    /\ lastOp' = Other
    /\ UNCHANGED <<objectProto, binding, nextId, defaultMaterial, mesh, sceneDirtyBlend, stencils,
                   shaderFailed, destroyed, lastSet>>

MaxFrameSetup == 1

\* What sets a material apart from a newly constructed one: the application's
\* setup, and a dirty flag the renderer has cleared.
FrameSetupSize(heap) ==
    SetupSize(heap, Len(heap))
        + Cardinality({i \in 1..Len(heap) : ~heap[i].dirty})

\* The application's writes to a material before it is given presets.
FrameSetup ==
    \/ \E i \in MatIds, f \in AssignableFields :
            AssignField(i, f, AltValue(f)) \/ AssignField(i, f, Defaults[f])
    \/ \E i \in MatIds, side \in {"stencilFront", "stencilBack"} :
            AssignNewStencil(i, side, 1)
    \/ \E i \in MatIds, side \in {"stencilFront", "stencilBack"},
          ref \in {Null} \cup (1..Len(stencils)) : AssignStencil(i, side, ref)
    \/ \E i \in MatIds, sh \in Shaders \cup {Null} : AssignShader(i, sh)
    \/ \E i \in MatIds, n \in Names, v \in Values :
            SetParameter(i, [kind |-> "value", name |-> n, data |-> v])
    \/ \E i \in MatIds, name \in Names : DeleteParameter(i, name)
    \/ \E mi \in MeshIds, t \in {Null} \cup MatIds : SetMeshMaterial(mi, t)

\* The application's writes and the renderer's clearing of the dirty flag,
\* within the bound, and assignments of blendType.
NextFrame ==
    \/ (FrameSetup /\ FrameSetupSize(mat') <= MaxFrameSetup)
    \/ (\E i \in MatIds : ClearDirty(i)) /\ FrameSetupSize(mat') <= MaxFrameSetup
    \/ \E i \in MatIds, type \in BlendTypes : SetBlendType(i, type)

SpecFrame == Init /\ [][NextFrame]_vars

----------------------------------------------------------------------------
(* Claims about what the blendType setter leaves alone *)

\* The fields of a material the claim names as untouched by a preset.
FrameFields ==
    {"alphaTest", "alphaToCoverage", "separateAlphaBlend", "blendSrcAlpha",
     "blendDstAlpha", "blendAlphaEquation", "cull", "depthTest", "depthWrite",
     "depthBias", "slopeDepthBias", "stencilFront", "stencilBack",
     "redWrite", "greenWrite", "blueWrite", "alphaWrite",
     "id", "name", "shader", "variants", "parameters", "meshInstances", "dirty"}

\* C13: setting blendType to a preset leaves blend, blendSrc, blendDst and
\* blendEquation holding that preset's tuple, and changes no other render-state
\* field, nor id, name, shader, variants, parameters, the consumer list or the
\* dirty flag, nor the contents of a stencil block.
C13_PresetFrame ==
    [][lastOp'.op = "setBlendType" /\ lastOp'.type \in Presets =>
          LET i == lastOp'.m
          IN  /\ BlendTuple(mat'[i]) = PresetTuple(lastOp'.type)
              /\ \A f \in FrameFields : mat'[i][f] = mat[i][f]
              /\ stencils' = stencils]_vars

\* C13 witness: a preset was applied to a material whose dirty flag had been
\* cleared, and the preset changed the blend fields to a tuple that differs
\* from the alpha channel's factors.
C13_Witness ==
    /\ lastOp.op = "setBlendType"
    /\ lastOp.type \in Presets
    /\ lastOp.prevBlend # mat[lastOp.m].blend
    /\ ~mat[lastOp.m].dirty
    /\ mat[lastOp.m].blendSrcAlpha # mat[lastOp.m].blendSrc


----------------------------------------------------------------------------
(* The life of materials: construction, clone, the operations, destroy *)

MaxIdSetup == 1

\* The operations of a material other than construction, clone and destroy.
IdOperation ==
    \/ \E i \in MatIds : Update(i)
    \/ \E i \in MatIds, type \in BlendTypes : SetBlendType(i, type)
    \/ \E i \in MatIds, n \in Names, v \in Values :
            SetParameter(i, [kind |-> "value", name |-> n, data |-> v])
    \/ \E i \in MatIds, name \in Names : DeleteParameter(i, name)
    \/ \E i \in MatIds : ClearParameters(i)

\* Materials are constructed, cloned and destroyed in any order; the other
\* operations are applied while the materials hold little off their defaults.
NextIds ==
    \/ Construct
    \/ \E i \in MatIds : Clone(i)
    \/ \E i \in MatIds : Destroy(i)
    \/ (SetupSize(mat, Len(mat)) <= MaxIdSetup /\ IdOperation)

SpecIds == Init /\ [][NextIds]_vars

----------------------------------------------------------------------------
(* Claims about material ids *)

\* C14: material ids are unique and monotonic.  Over any sequence of
\* constructions, clones, destroys and other operations, a material that
\* appears (a clone included) has an id strictly greater than the id of every
\* material that existed before, destroyed ones included, no two materials
\* share an id, and no step changes the id of an existing material.
C14_IdsUniqueMonotonic ==
    [][/\ Len(mat') >= Len(mat)
       /\ \A j \in 1..Len(mat) : mat'[j].id = mat[j].id
       /\ \A j \in (Len(mat) + 1)..Len(mat') :
             \A k \in 1..Len(mat) : mat'[j].id > mat[k].id
       /\ \A j, k \in 1..Len(mat') : j # k => mat'[j].id # mat'[k].id]_vars

\* C14 witness: a material was destroyed, and a material constructed after the
\* destroy holds the highest id, above that of the destroyed material.
C14_Witness ==
    /\ lastOp.op = "construct"
    /\ destroyed # {}
    /\ lastOp.m \notin destroyed
    /\ \A j \in 1..Len(mat) : j # lastOp.m => mat[j].id < mat[lastOp.m].id
    /\ mat[lastOp.m].id = nextId - 1

====
